---- MODULE Spec2Model ----
(***************************************************************************)
(* Symbol resolution, call-graph construction and call-flow unrolling of   *)
(* the repository analyser (parser_engine).                                *)
(*                                                                         *)
(* Dotted names ('pkg.mod.fn') are sequences of their segments             *)
(* (<<"pkg","mod","fn">>): splitting at a '.' is splitting the sequence,   *)
(* and f"{a}.{b}" is concatenation.  Python's None is the empty sequence   *)
(* (no name the analyser handles is the empty string).                     *)
(***************************************************************************)
EXTENDS Integers, Sequences, FiniteSets, TLC

VARIABLES
    modules,        \* RepoIndexer.modules: the list of ModuleElement
    symbol_table,   \* RepoIndexer.symbol_table: key -> reference to an element
    module_name_map,\* RepoIndexer.module_name_map: module name -> module index
    pc,             \* position of the run
    cursor,         \* resolve phase: index of the next function to resolve
    probe,          \* direct _resolve_call invocation: its inputs and result
    call_graph,     \* caller key -> sequence of callee keys
    entry_function, \* the entry symbol given on the command line
    visit_stack,    \* Unroller: the active call path
    frames,         \* Unroller: the recursion stack of invocations
    out,            \* Unroller: the rendered trace, one event per output line
    files,          \* the source files handed to the parser, in walking order
    log             \* RepoIndexer: what the resolve phase printed, per visit

vars == <<modules, symbol_table, module_name_map, pc, cursor, probe,
          call_graph, entry_function, visit_stack, frames, out, files, log>>

----------------------------------------------------------------------------
(* Bounds of the model *)

MaxSegs == 3        \* longest call literal, in dotted segments
MaxKeys == 2        \* declarations in a hand-built symbol table
MaxAliases == 1     \* entries of an import-alias table
MaxCallSites == 4   \* call expressions in the whole analysed repository
MaxDecls == 2       \* top-level functions of a hand-built module
MaxLevel == 3       \* leading dots of a relative import
MaxDepth == 3       \* segments of an enclosing dotted path
MaxFiles == 2       \* source files of the parsed directory

----------------------------------------------------------------------------
(* Names *)

None == << >>

Atoms == {"m", "f", "print"}

\* set(__builtins__.keys()), restricted to the identifiers of the model
Builtins == {"print", "len"}

RECURSIVE NamesOfLen(_)
NamesOfLen(n) ==
    IF n = 0 THEN {<< >>}
    ELSE {<<a>> \o r : a \in Atoms, r \in NamesOfLen(n - 1)}

NamesUpTo(n) == UNION {NamesOfLen(k) : k \in 1..n}

Dotted(name) == Len(name) > 1

\* str.split('.', 1)
SplitFirst(name) == <<Head(name), Tail(name)>>

InSeq(x, q) == \E i \in 1..Len(q) : q[i] = x

RECURSIVE SeqOfSet(_)
SeqOfSet(S) ==
    IF S = {} THEN << >>
    ELSE LET x == CHOOSE y \in S : TRUE IN <<x>> \o SeqOfSet(S \ {x})

----------------------------------------------------------------------------
(* Data model.                                                             *)
(*   line     [indent, calls, valid]       one line of ModuleElement.body  *)
(*   call     [name, module_name, line_number, resolved_name]              *)
(*   function [name, qualified_name, start_line, end_line, function_calls] *)
(*   class    [name, qualified_name, start_line, end_line, methods,        *)
(*             inner_classes]                                              *)
(*   module   [name, imports_mapping, body, functions, classes, path,      *)
(*             error]                                                      *)
(* An element reference <<mi, ci, fi>> denotes, in module mi, the          *)
(* top-level function fi (ci = 0), the class ci (fi = 0) or the method fi  *)
(* of class ci.                                                            *)
(***************************************************************************)

FunctionElement(name, qualified_name, start_line, end_line) ==
    [name |-> name, qualified_name |-> qualified_name,
     start_line |-> start_line, end_line |-> end_line,
     function_calls |-> << >>]

ClassElement(name, start_line, end_line, methods, inner_classes) ==
    [name |-> name, qualified_name |-> None,
     start_line |-> start_line, end_line |-> end_line,
     methods |-> methods, inner_classes |-> inner_classes]

ModuleElement(name, imports_mapping, body, functions, classes) ==
    [name |-> name, imports_mapping |-> imports_mapping, body |-> body,
     functions |-> functions, classes |-> classes,
     path |-> None, error |-> None]

FunctionCallElement(name, module_name, line_number) ==
    [name |-> name, module_name |-> module_name,
     line_number |-> line_number, resolved_name |-> None]

IsClassRef(ref) == ref[2] > 0 /\ ref[3] = 0

ElementAt(mods, ref) ==
    IF ref[2] = 0 THEN mods[ref[1]].functions[ref[3]]
    ELSE IF ref[3] = 0 THEN mods[ref[1]].classes[ref[2]]
    ELSE mods[ref[1]].classes[ref[2]].methods[ref[3]]

\* variant: an existing entry is kept (dict.setdefault)
Put_keep_first(table, key, value) ==
    [k \in DOMAIN table \cup {key} |->
        IF k \in DOMAIN table THEN table[k] ELSE value]

Put(table, key, value) ==
    [k \in DOMAIN table \cup {key} |-> IF k = key THEN value ELSE table[k]]

EmptyTable == [k \in {} |-> None]

----------------------------------------------------------------------------
(* RepoIndexer: build phase *)

\* the insertions _build_symbol_table makes for one module, in order
ModuleInsertions(mods, mi) ==
    LET m == mods[mi]
        ClassIns(ci) ==
            <<<<m.classes[ci].name, <<mi, ci, 0>>>>>> \o
            [fi \in 1..Len(m.classes[ci].methods) |->
                <<m.classes[ci].methods[fi].name, <<mi, ci, fi>>>>]
        F[ci \in 0..Len(m.classes)] ==
            IF ci = 0 THEN << >> ELSE F[ci - 1] \o ClassIns(ci)
    IN  F[Len(m.classes)] \o
        [fi \in 1..Len(m.functions) |-> <<m.functions[fi].name, <<mi, 0, fi>>>>]

AllInsertions(mods) ==
    LET F[mi \in 0..Len(mods)] ==
            IF mi = 0 THEN << >> ELSE F[mi - 1] \o ModuleInsertions(mods, mi)
    IN  F[Len(mods)]

\* self.symbol_table[name] = element, for the insertions in order
InsertAll(ins) ==
    LET F[i \in 0..Len(ins)] ==
            IF i = 0 THEN EmptyTable ELSE Put(F[i - 1], ins[i][1], ins[i][2])
    IN  F[Len(ins)]

BuildSymbolTable(mods) == InsertAll(AllInsertions(mods))

\* variant: the qualified name is prefixed with module_prefix
AssignQualifiedNames_prefixed(mods) ==
    LET Named(m, e) == [e EXCEPT !.qualified_name = m.name \o e.name]
        NamedClass(m, c) ==
            [Named(m, c) EXCEPT
                !.methods = [fi \in DOMAIN c.methods |-> Named(m, c.methods[fi])]]
    IN  [mi \in DOMAIN mods |->
            [mods[mi] EXCEPT
                !.classes = [ci \in DOMAIN mods[mi].classes |->
                                NamedClass(mods[mi], mods[mi].classes[ci])],
                !.functions = [fi \in DOMAIN mods[mi].functions |->
                                Named(mods[mi], mods[mi].functions[fi])]]]

\* element.qualified_name = element.name for classes, methods and functions
AssignQualifiedNames(mods) ==
    LET Named(e) == [e EXCEPT !.qualified_name = e.name]
        NamedClass(c) ==
            [Named(c) EXCEPT
                !.methods = [fi \in DOMAIN c.methods |-> Named(c.methods[fi])]]
    IN  [mi \in DOMAIN mods |->
            [mods[mi] EXCEPT
                !.classes = [ci \in DOMAIN mods[mi].classes |->
                                NamedClass(mods[mi].classes[ci])],
                !.functions = [fi \in DOMAIN mods[mi].functions |->
                                Named(mods[mi].functions[fi])]]]

BuildModuleNameMap(mods) ==
    LET F[i \in 0..Len(mods)] ==
            IF i = 0 THEN EmptyTable ELSE Put(F[i - 1], mods[i].name, i)
    IN  F[Len(mods)]

----------------------------------------------------------------------------
(* RepoIndexer: resolution of one call literal *)

_is_builtin_function(function_name) ==
    Len(function_name) = 1 /\ function_name[1] \in Builtins

\* variant: splits at the last '.' instead of the first
resolve_dotted_rsplit(function_name, module) ==
    LET module_part == SubSeq(function_name, 1, Len(function_name) - 1)
        func_part == <<function_name[Len(function_name)]>>
    IN  IF Len(module_part) = 1 /\ module_part[1] \in DOMAIN module.imports_mapping
        THEN module.imports_mapping[module_part[1]] \o func_part
        ELSE function_name

\* the branch taken for a literal containing a '.'
resolve_dotted(function_name, module) ==
    LET module_part == SplitFirst(function_name)[1]
        func_part == SplitFirst(function_name)[2]
    IN  IF module_part \in DOMAIN module.imports_mapping
        THEN module.imports_mapping[module_part] \o func_part
        ELSE function_name

\* variant: the local scope counts only if the entry of the symbol table is
\* a declaration of the first module of the list
resolve_bare_first_module(function_name, module, table) ==
    LET local_name == module.name \o function_name
    IN  IF local_name \in DOMAIN table /\ table[local_name][1] = 1
        THEN local_name
        ELSE IF /\ function_name[1] \in DOMAIN module.imports_mapping
                /\ module.imports_mapping[function_name[1]] \o function_name
                       \in DOMAIN table
             THEN module.imports_mapping[function_name[1]] \o function_name
        ELSE IF function_name \in DOMAIN table THEN function_name
        ELSE None

\* variant: the imports mapping is consulted before the local scope
resolve_bare_alias_first(function_name, module, table) ==
    LET local_name == module.name \o function_name
    IN  IF /\ function_name[1] \in DOMAIN module.imports_mapping
           /\ module.imports_mapping[function_name[1]] \o function_name
                  \in DOMAIN table
        THEN module.imports_mapping[function_name[1]] \o function_name
        ELSE IF local_name \in DOMAIN table THEN local_name
        ELSE IF function_name \in DOMAIN table THEN function_name
        ELSE None

\* variant: no global fallback
resolve_bare_no_global(function_name, module, table) ==
    LET local_name == module.name \o function_name
    IN  IF local_name \in DOMAIN table THEN local_name
        ELSE IF /\ function_name[1] \in DOMAIN module.imports_mapping
                /\ module.imports_mapping[function_name[1]] \o function_name
                       \in DOMAIN table
             THEN module.imports_mapping[function_name[1]] \o function_name
        ELSE None

\* variant: an unresolvable name is returned as written
resolve_bare_echo(function_name, module, table) ==
    LET local_name == module.name \o function_name
    IN  IF local_name \in DOMAIN table THEN local_name
        ELSE IF /\ function_name[1] \in DOMAIN module.imports_mapping
                /\ module.imports_mapping[function_name[1]] \o function_name
                       \in DOMAIN table
             THEN module.imports_mapping[function_name[1]] \o function_name
        ELSE function_name

\* local scope, then imports mapping, then global symbol table
resolve_bare(function_name, module, table) ==
    LET local_name == module.name \o function_name
    IN  IF local_name \in DOMAIN table THEN local_name
        ELSE IF /\ function_name[1] \in DOMAIN module.imports_mapping
                /\ module.imports_mapping[function_name[1]] \o function_name
                       \in DOMAIN table
             THEN module.imports_mapping[function_name[1]] \o function_name
        ELSE IF function_name \in DOMAIN table THEN function_name
        ELSE None

\* variant: the built-in check comes after the symbol-table checks
_resolve_call_builtin_last(function_name, function, module, table) ==
    IF Dotted(function_name) THEN resolve_dotted(function_name, module)
    ELSE IF resolve_bare(function_name, module, table) # None
         THEN resolve_bare(function_name, module, table)
    ELSE IF _is_builtin_function(function_name) THEN function_name
    ELSE None

\* variant: the local scope is the calling function's name, not the module's
_resolve_call_function_scope(function_name, function, module, table) ==
    IF Dotted(function_name) THEN resolve_dotted(function_name, module)
    ELSE IF _is_builtin_function(function_name) THEN function_name
    ELSE resolve_bare(function_name, [module EXCEPT !.name = function.name],
                      table)

_resolve_call(function_name, function, module, table) ==
    IF Dotted(function_name) THEN resolve_dotted(function_name, module)
    ELSE IF _is_builtin_function(function_name) THEN function_name
    ELSE resolve_bare(function_name, module, table)

----------------------------------------------------------------------------
(* Direct invocation of _resolve_call on a built symbol table, as the      *)
(* unit tests do: the inputs are drawn from bounded sets.                  *)

AliasTargets == {<<"m">>, <<"f">>, <<"f", "m">>}

ImportMaps ==
    UNION {[D -> AliasTargets] :
              D \in {S \in SUBSET Atoms : Cardinality(S) <= MaxAliases}}

KeySets == {S \in SUBSET NamesUpTo(2) : Cardinality(S) <= MaxKeys}

CallNames == NamesUpTo(MaxSegs)

ProbeFunctions ==
    {FunctionElement(<<"f">>, None, 1, 1),
     FunctionElement(<<"m", "f">>, None, 1, 1)}

NoProbe == [name |-> None, callers |-> << >>, result |-> None]

\* the module whose function makes the call
owner == modules[1]

IdleUnroller ==
    /\ call_graph = EmptyTable
    /\ entry_function = None
    /\ visit_stack = << >>
    /\ frames = << >>
    /\ out = << >>

InitResolve ==
    /\ \E imp \in ImportMaps, K \in KeySets :
          modules =
            <<ModuleElement(<<"m">>, imp, << >>, << >>, << >>),
              ModuleElement(<<"lib">>, EmptyTable, << >>,
                  [i \in 1..Cardinality(K) |->
                      FunctionElement(SeqOfSet(K)[i], None, 1, 1)],
                  << >>)>>
    /\ symbol_table = EmptyTable
    /\ module_name_map = EmptyTable
    /\ pc = "init"
    /\ cursor = 0
    /\ probe = NoProbe
    /\ files = << >>
    /\ log = << >>
    /\ IdleUnroller

\* index_repository, build phase: _build_module_name_map, _build_symbol_table
build_symbol_table ==
    /\ pc = "init"
    /\ module_name_map' = BuildModuleNameMap(modules)
    /\ symbol_table' = BuildSymbolTable(modules)
    /\ modules' = AssignQualifiedNames(modules)
    /\ pc' = "built"
    /\ cursor' = 1
    /\ UNCHANGED <<probe, call_graph, entry_function, visit_stack, frames, out,
                   files, log>>

\* indexer._resolve_call(name, function, module)
resolve_call ==
    /\ pc = "built"
    /\ \E function_name \in CallNames, function \in ProbeFunctions :
          probe' = [name |-> function_name, callers |-> <<function.name>>,
                    result |-> _resolve_call(function_name, function,
                                             owner, symbol_table)]
    /\ pc' = "probed"
    /\ UNCHANGED <<modules, symbol_table, module_name_map, cursor,
                   call_graph, entry_function, visit_stack, frames, out,
                   files, log>>

\* a second invocation with the same literal, from any function
resolve_call_again ==
    /\ pc = "probed"
    /\ \E function \in ProbeFunctions :
          probe' = [name |-> probe.name,
                    callers |-> Append(probe.callers, function.name),
                    result |-> _resolve_call(probe.name, function,
                                             owner, symbol_table)]
    /\ pc' = "reprobed"
    /\ UNCHANGED <<modules, symbol_table, module_name_map, cursor,
                   call_graph, entry_function, visit_stack, frames, out,
                   files, log>>

NextResolve == build_symbol_table \/ resolve_call \/ resolve_call_again

SpecResolve == InitResolve /\ [][NextResolve]_vars

----------------------------------------------------------------------------
(* Call-site extraction: PythonFunctionCallVisitor on the re-parsed slice. *)
(* A body line is [indent, calls, valid]: its indentation, the callee      *)
(* expressions of the calls on it in visiting order, and whether it is     *)
(* well-formed.  A callee is [rooted, chain]: an attribute chain, rooted   *)
(* at a simple name (the first element of the chain) or at some other      *)
(* expression.                                                             *)

Line(indent, calls) == [indent |-> indent, calls |-> calls, valid |-> TRUE]

Callee(name) == [rooted |-> TRUE, chain |-> name]

\* the attributes applied to an expression that is not a name: run().go
Unrooted(chain) == [rooted |-> FALSE, chain |-> chain]

\* PythonFunctionCallVisitor._get_function_name: the dotted join of a chain
\* rooted at a name; for a chain on another expression the attributes alone
\* (return node.attr); None when nothing is left
_get_function_name(callee) == callee.chain

\* PythonFunctionCallVisitor._resolve_module.  Alias keys are single
\* segments, so the scan for an alias whose last segment is first_part
\* finds what the direct lookup finds.
_resolve_module(first_part, imports_mapping) ==
    IF first_part \in DOMAIN imports_mapping THEN imports_mapping[first_part]
    ELSE IF first_part \in Builtins THEN <<"builtins">>
    ELSE None

\* the module_name that visit_Call stores with the call
GuessedModule(function_name, imports_mapping) ==
    LET module_name == _resolve_module(function_name[1], imports_mapping)
        middle == SubSeq(function_name, 2, Len(function_name) - 1)
    IN  IF module_name # None /\ Len(function_name) > 1
        THEN module_name \o (IF middle = << >> THEN <<"">> ELSE middle)
        ELSE module_name

\* module_lines[function.start_line-1:function.end_line]
SourceSlice(element, module) ==
    LET last == IF element.end_line < Len(module.body)
                THEN element.end_line ELSE Len(module.body)
    IN  SubSeq(module.body, element.start_line, last)

\* ast.parse of the slice on its own: the slice must start at column 0
SliceParses(slice) ==
    \/ slice = << >>
    \/ /\ slice[1].indent = 0
       /\ \A i \in 1..Len(slice) : slice[i].valid

\* the calls visit_Call appends for the callees of one line
LineCalls(line, line_number, imports_mapping) ==
    LET named == SelectSeq(line.calls, LAMBDA c : _get_function_name(c) # None)
    IN  [i \in 1..Len(named) |->
            FunctionCallElement(_get_function_name(named[i]),
                GuessedModule(_get_function_name(named[i]), imports_mapping),
                line_number)]

\* variant: the calls collected from a slice are returned even when the
\* slice does not parse
_extract_function_calls_unguarded(function, module) ==
    LET slice == SourceSlice(function, module)
        F[i \in 0..Len(slice)] ==
            IF i = 0 THEN << >>
            ELSE F[i - 1] \o LineCalls(slice[i], i, module.imports_mapping)
    IN  F[Len(slice)]

\* variant: the line number is the line of the call in the module text
_extract_function_calls_module_lines(function, module) ==
    LET slice == SourceSlice(function, module)
        F[i \in 0..Len(slice)] ==
            IF i = 0 THEN << >>
            ELSE F[i - 1] \o LineCalls(slice[i], function.start_line + i - 1,
                                       module.imports_mapping)
    IN  IF SliceParses(slice) THEN F[Len(slice)] ELSE << >>

\* ast.parse of the slice and a visit of its calls; [] on any exception
_extract_function_calls(function, module) ==
    LET slice == SourceSlice(function, module)
        F[i \in 0..Len(slice)] ==
            IF i = 0 THEN << >>
            ELSE F[i - 1] \o LineCalls(slice[i], i, module.imports_mapping)
    IN  IF SliceParses(slice) THEN F[Len(slice)] ELSE << >>

----------------------------------------------------------------------------
(* RepoIndexer: resolve phase *)

\* variant: the methods of the classes are not visited
ModuleResolveOrder_no_methods(mods, mi) ==
    [fi \in 1..Len(mods[mi].functions) |-> <<mi, 0, fi>>]

\* the functions in the order _resolve_function_calls visits them
ModuleResolveOrder(mods, mi) ==
    LET m == mods[mi]
        F[ci \in 0..Len(m.classes)] ==
            IF ci = 0 THEN << >>
            ELSE F[ci - 1] \o
                 [fi \in 1..Len(m.classes[ci].methods) |-> <<mi, ci, fi>>]
    IN  [fi \in 1..Len(m.functions) |-> <<mi, 0, fi>>] \o F[Len(m.classes)]

ResolveOrder(mods) ==
    LET F[mi \in 0..Len(mods)] ==
            IF mi = 0 THEN << >> ELSE F[mi - 1] \o ModuleResolveOrder(mods, mi)
    IN  F[Len(mods)]

\* variant: the resolution also replaces the literal of the call
ResolvedCalls_renamed(function, module, table) ==
    LET calls == _extract_function_calls(function, module)
        resolved(c) == _resolve_call(c.name, function, module, table)
    IN  [i \in 1..Len(calls) |->
            [calls[i] EXCEPT
                !.resolved_name = resolved(calls[i]),
                !.name = IF resolved(calls[i]) = None THEN calls[i].name
                         ELSE resolved(calls[i])]]

\* _resolve_function_calls_in_function: the call list with resolved names
ResolvedCalls(function, module, table) ==
    LET calls == _extract_function_calls(function, module)
    IN  [i \in 1..Len(calls) |->
            [calls[i] EXCEPT
                !.resolved_name =
                    _resolve_call(calls[i].name, function, module, table)]]

WithFunctionCalls(mods, ref, calls) ==
    IF ref[2] = 0
    THEN [mods EXCEPT ![ref[1]].functions[ref[3]].function_calls = calls]
    ELSE [mods EXCEPT
            ![ref[1]].classes[ref[2]].methods[ref[3]].function_calls = calls]

\* what _resolve_function_calls_in_function prints for one function: the
\* function visited and, per call in order, the literal and its resolution
Printed(ref, calls) ==
    [function |-> ref,
     calls |-> [i \in 1..Len(calls) |-> <<calls[i].name, calls[i].resolved_name>>]]

\* one iteration of the loops of _resolve_function_calls
resolve_function_calls ==
    /\ pc = "built"
    /\ cursor <= Len(ResolveOrder(modules))
    /\ LET ref == ResolveOrder(modules)[cursor]
           calls == ResolvedCalls(ElementAt(modules, ref),
                                  modules[ref[1]], symbol_table)
       IN  /\ modules' = WithFunctionCalls(modules, ref, calls)
           /\ log' = Append(log, Printed(ref, calls))
    /\ cursor' = cursor + 1
    /\ pc' = IF cursor = Len(ResolveOrder(modules)) THEN "resolved" ELSE "built"
    /\ UNCHANGED <<symbol_table, module_name_map, probe, call_graph,
                   entry_function, visit_stack, frames, out, files>>

----------------------------------------------------------------------------
(* The analysed repository: module m (functions A, B, C; 'import n' and    *)
(* 'from n import D') and module n (class K with one method, function D).  *)
(* Every call is on a line of its own, after the 'def' line.               *)

FunctionText(indent, literals) ==
    <<Line(indent, << >>)>> \o
    [i \in 1..Len(literals) |-> Line(indent + 4, <<Callee(literals[i])>>)]

RECURSIVE SeqsUpTo(_, _)
SeqsUpTo(S, n) ==
    IF n = 0 THEN {<< >>}
    ELSE SeqsUpTo(S, n - 1) \cup
         {Append(q, x) : q \in {r \in SeqsUpTo(S, n - 1) : Len(r) = n - 1},
                         x \in S}

LiteralsA == {<<"B">>, <<"C">>, <<"zz">>}
LiteralsB == {<<"A">>, <<"n", "D">>, <<"print">>}
LiteralsC == {<<"n", "D">>, <<"D">>, <<"os", "getcwd">>}
LiteralsD == {<<"D">>, <<"m", "A">>, <<"K">>}

EntryFunctions == {<<"m", "A">>, <<"zz">>}

Repository(a, b, c, d) ==
    LET endA == 1 + Len(a)
        endB == endA + 1 + Len(b)
        endC == endB + 1 + Len(c)
    IN  <<ModuleElement(<<"m">>,
              [x \in {"D", "n"} |-> IF x = "D" THEN <<"n", "D">> ELSE <<"n">>],
              FunctionText(0, a) \o FunctionText(0, b) \o FunctionText(0, c),
              <<FunctionElement(<<"m", "A">>, <<"m", "A() -> Any">>, 1, endA),
                FunctionElement(<<"m", "B">>, <<"m", "B() -> Any">>,
                                endA + 1, endB),
                FunctionElement(<<"m", "C">>, <<"m", "C() -> Any">>,
                                endB + 1, endC)>>,
              << >>),
          ModuleElement(<<"n">>, EmptyTable,
              <<Line(0, << >>)>> \o FunctionText(4, <<<<"D">>>>)
                  \o FunctionText(0, d),
              <<FunctionElement(<<"n", "D">>, <<"n", "D() -> Any">>,
                                4, 4 + Len(d))>>,
              <<ClassElement(<<"n", "K">>, 1, 3,
                    <<FunctionElement(<<"n", "K", "meth">>,
                          <<"n", "K", "meth(self: Any) -> Any">>, 2, 3)>>,
                    << >>)>>)>>

Init ==
    /\ modules = << >>
    /\ entry_function \in EntryFunctions
    /\ symbol_table = EmptyTable
    /\ module_name_map = EmptyTable
    /\ pc = "start"
    /\ cursor = 0
    /\ probe = NoProbe
    /\ call_graph = EmptyTable
    /\ visit_stack = << >>
    /\ frames = << >>
    /\ out = << >>
    /\ files = << >>
    /\ log = << >>

\* parser.parse_repo(): the modules extracted from the repository's files
parse_repo ==
    /\ pc = "start"
    /\ \E a \in SeqsUpTo(LiteralsA, MaxCallSites) :
       \E b \in SeqsUpTo(LiteralsB, MaxCallSites - Len(a)) :
       \E c \in SeqsUpTo(LiteralsC, MaxCallSites - Len(a) - Len(b)) :
       \E d \in SeqsUpTo(LiteralsD, MaxCallSites - Len(a) - Len(b) - Len(c)) :
          modules' = Repository(a, b, c, d)
    /\ pc' = "init"
    /\ UNCHANGED <<symbol_table, module_name_map, cursor, probe, call_graph,
                   entry_function, visit_stack, frames, out, files, log>>

----------------------------------------------------------------------------
(* The indexer on hand-built modules, as its unit tests run it: two        *)
(* modules whose declarations may share names, classes with methods and    *)
(* nested classes.  The modules have no source text.                       *)

DeclNames == {<<"x", "run">>, <<"x", "K">>}

\* the full qualified name _parse_function gives a function without
\* parameters and annotations
FullName(name) == [name EXCEPT ![Len(name)] = @ \o "() -> Any"]

HandBuiltFunction(name) == FunctionElement(name, FullName(name), 1, 1)

MethodLists == {[i \in 1..Len(q) |-> HandBuiltFunction(q[i])] :
                   q \in SeqsUpTo(DeclNames, 1)}

FunctionLists == {[i \in 1..Len(q) |-> HandBuiltFunction(q[i])] :
                     q \in SeqsUpTo(DeclNames, MaxDecls)}

InnerClassLists ==
    {<< >>,
     <<ClassElement(<<"x", "K", "In">>, 1, 1, << >>, << >>)>>,
     <<ClassElement(<<"x", "K", "In">>, 1, 1,
           <<HandBuiltFunction(<<"x", "K", "In", "m">>)>>, << >>)>>}

ClassLists ==
    LET first == {ClassElement(n, 1, 1, ms, ics) :
                     n \in DeclNames, ms \in MethodLists,
                     ics \in InnerClassLists}
        second == {ClassElement(n, 1, 1, ms, << >>) :
                      n \in DeclNames, ms \in MethodLists}
    IN  {<< >>} \cup {<<c>> : c \in first}
               \cup {<<c, d>> : c \in first, d \in second}

InitIndex ==
    /\ \E cs \in ClassLists, fs \in FunctionLists, gs \in FunctionLists :
          modules = <<ModuleElement(<<"x">>, EmptyTable, << >>, fs, cs),
                      ModuleElement(<<"x">>, EmptyTable, << >>, gs, << >>)>>
    /\ symbol_table = EmptyTable
    /\ module_name_map = EmptyTable
    /\ pc = "init"
    /\ cursor = 0
    /\ probe = NoProbe
    /\ files = << >>
    /\ log = << >>
    /\ IdleUnroller

\* RepoIndexer.index_repository
NextIndex == build_symbol_table \/ resolve_function_calls

SpecIndex == InitIndex /\ [][NextIndex]_vars

----------------------------------------------------------------------------
(* The indexer on hand-built modules with source text, as                  *)
(* test_extract_function_calls and test_error_handling run it.  Both       *)
(* modules are named 'x' (two files of different directories that get the  *)
(* same module name): the first has top-level functions, the second a      *)
(* function that shares the name of the first module's first function and  *)
(* a class with one method.                                                 *)

\* the text of one function: the 'def' line and one line per statement,
\* each with the callees of its calls in visiting order
SourceText(indent, valid, calls) ==
    <<[indent |-> indent, calls |-> << >>, valid |-> valid]>> \o
    [i \in 1..Len(calls) |->
        [indent |-> indent + 4, calls |-> calls[i], valid |-> TRUE]]

StatementCalls ==
    {<< >>,
     <<<<Callee(<<"run">>)>>>>,
     <<<<Callee(<<"go">>)>>>>,
     <<<<Callee(<<"x", "run">>)>>, <<Callee(<<"print">>)>>>>,
     <<<<Unrooted(<<"go">>), Callee(<<"run">>)>>>>,
     <<<<Unrooted(<< >>), Callee(<<"run">>)>>>>}

\* functions at column 0, well-formed or with a syntax error
TopLevelTexts ==
    {SourceText(0, TRUE, c) : c \in StatementCalls}
        \cup {SourceText(0, FALSE, <<<<Callee(<<"run">>)>>>>)}

\* methods, indented inside the class body
MethodTexts ==
    {SourceText(4, TRUE, << >>), SourceText(4, TRUE, <<<<Callee(<<"run">>)>>>>)}

DeclName(i) == <<"x", IF i = 1 THEN "run" ELSE IF i = 2 THEN "go" ELSE "aux">>

RECURSIVE Flatten(_)
Flatten(texts) ==
    IF texts = << >> THEN << >> ELSE Head(texts) \o Flatten(Tail(texts))

\* the function elements of texts laid out one after the other from line 1
Placed(texts) ==
    [i \in 1..Len(texts) |->
        FunctionElement(DeclName(i), FullName(DeclName(i)),
            Len(Flatten(SubSeq(texts, 1, i - 1))) + 1,
            Len(Flatten(SubSeq(texts, 1, i))))]

InitExtract ==
    /\ \E ts \in SeqsUpTo(TopLevelTexts, MaxDecls) \ {<< >>},
          u \in TopLevelTexts, mt \in MethodTexts :
          modules =
            <<ModuleElement(<<"x">>, EmptyTable, Flatten(ts), Placed(ts), << >>),
              ModuleElement(<<"x">>, EmptyTable,
                  u \o <<Line(0, << >>)>> \o mt,
                  <<FunctionElement(DeclName(1), FullName(DeclName(1)),
                                    1, Len(u))>>,
                  <<ClassElement(<<"x", "K">>, Len(u) + 1, Len(u) + 1 + Len(mt),
                        <<FunctionElement(<<"x", "K", "m">>,
                              FullName(<<"x", "K", "m">>),
                              Len(u) + 2, Len(u) + 1 + Len(mt))>>,
                        << >>)>>)>>
    /\ symbol_table = EmptyTable
    /\ module_name_map = EmptyTable
    /\ pc = "init"
    /\ cursor = 0
    /\ probe = NoProbe
    /\ files = << >>
    /\ log = << >>
    /\ IdleUnroller

SpecExtract == InitExtract /\ [][NextIndex]_vars

----------------------------------------------------------------------------
(* Element Extractor: import statements (PythonParser._parse_imports).     *)
(* An import node is [type, module, level, names]; a name of the           *)
(* statement is [name, asname], both sequences of segments (the name is    *)
(* dotted for 'import a.b', the asname has one segment or is None).  The   *)
(* modules that exist under repo_root are given as a set of dotted names   *)
(* (empty when parse_file got no repo_root).                               *)

Alias(name, asname) == [name |-> name, asname |-> asname]

Import(names) ==
    [type |-> "Import", module |-> None, level |-> 0, names |-> names]

ImportFrom(module, level, names) ==
    [type |-> "ImportFrom", module |-> module, level |-> level,
     names |-> names]

\* str.startswith between identifiers of the model: 'pkgs' starts with 'pkg'
StartsWith(s, prefix) ==
    prefix = "" \/ s = prefix \/ <<s, prefix>> \in {<<"pkgs", "pkg">>}

_is_local_module(module_name, local_modules) == module_name \in local_modules

\* variant: level L > 1 drops L-1 segments
relative_base_one_less(parts, level) ==
    IF level > 1
    THEN IF Len(parts) > level - 1
         THEN SubSeq(parts, 1, Len(parts) - (level - 1)) ELSE << >>
    ELSE parts

\* parts[:-node.level] if node.level > 1 else parts
relative_base(parts, level) ==
    IF level > 1
    THEN IF Len(parts) > level THEN SubSeq(parts, 1, Len(parts) - level)
         ELSE << >>
    ELSE parts

\* imports_mapping[asname] = f"{module}.{name}", for the names in order
MapNames(names, module) ==
    LET key(a) == IF a.asname # None THEN a.asname[1] ELSE a.name[1]
        F[i \in 0..Len(names)] ==
            IF i = 0 THEN EmptyTable
            ELSE Put(F[i - 1], key(names[i]), module \o names[i].name)
    IN  F[Len(names)]

\* the 'import a.b [as c]' branch
parse_import(node, parent_module, local_modules) ==
    LET top_level == IF parent_module # None THEN parent_module[1] ELSE ""
        target(a) ==
            IF /\ parent_module # None
               /\ ~StartsWith(a.name[1], top_level)
               /\ _is_local_module(a.name, local_modules)
            THEN <<top_level>> \o a.name ELSE a.name
        key(a) == IF a.asname # None THEN a.asname[1] ELSE a.name[1]
        F[i \in 0..Len(node.names)] ==
            IF i = 0 THEN EmptyTable
            ELSE Put(F[i - 1], key(node.names[i]), target(node.names[i]))
    IN  F[Len(node.names)]

\* the 'from [.]*module import name [as c]' branch
parse_import_from(node, parent_module, local_modules) ==
    LET top_level == IF parent_module # None THEN parent_module[1] ELSE ""
        module ==
            IF node.level > 0
            THEN IF parent_module # None
                 THEN relative_base(parent_module, node.level) \o node.module
                 ELSE node.module
            ELSE IF node.module = <<top_level>> THEN node.module
            ELSE IF Len(node.module) > 1 /\ node.module[1] = top_level
                 THEN node.module
            ELSE IF /\ parent_module # None
                    /\ ~StartsWith(node.module[1], top_level)
                    /\ _is_local_module(node.module, local_modules)
                 THEN <<top_level>> \o node.module
            ELSE node.module
    IN  MapNames(node.names, module)

_parse_imports(node, parent_module, local_modules) ==
    IF node.type = "Import"
    THEN parse_import(node, parent_module, local_modules)
    ELSE parse_import_from(node, parent_module, local_modules)

----------------------------------------------------------------------------
(* Direct invocation of _parse_imports, as test_parse_imports does: the    *)
(* statement, the enclosing dotted path and the local modules are drawn    *)
(* from bounded sets.                                                      *)

NameLists ==
    {<<Alias(<<"N">>, None)>>, <<Alias(<<"uncle">>, None)>>,
     <<Alias(<<"N">>, <<"Z">>)>>,
     <<Alias(<<"N">>, None), Alias(<<"uncle">>, <<"N">>)>>}

ImportNodes ==
    {ImportFrom(m, 0, ns) :
        m \in {<<"M">>, <<"pkg">>, <<"pkg", "M">>, <<"pkgs">>},
        ns \in NameLists}
    \cup {ImportFrom(m, l, ns) :
             m \in {None, <<"M">>}, l \in 1..MaxLevel, ns \in NameLists}
    \cup {Import(<<Alias(n, a)>>) :
             n \in {<<"M">>, <<"pkg", "M">>, <<"pkgs">>}, a \in {None, <<"Z">>}}

RECURSIVE PathsOfLen(_)
PathsOfLen(n) ==
    IF n = 0 THEN {<< >>}
    ELSE {<<a>> \o r : a \in {"pkg", "parent", "child"},
                       r \in PathsOfLen(n - 1)}

ParentModules == UNION {PathsOfLen(n) : n \in 0..MaxDepth}

LocalModuleSets == {{}, {<<"M">>, <<"pkgs">>}}

InitImports ==
    /\ modules = << >>
    /\ symbol_table = EmptyTable
    /\ module_name_map = EmptyTable
    /\ pc = "imports"
    /\ cursor = 0
    /\ probe = NoProbe
    /\ files = << >>
    /\ log = << >>
    /\ IdleUnroller

\* parser._parse_imports(node, parent_module)
parse_imports ==
    /\ pc = "imports"
    /\ \E node \in ImportNodes, parent_module \in ParentModules,
          local_modules \in LocalModuleSets :
          probe' = [node |-> node, parent_module |-> parent_module,
                    local_modules |-> local_modules,
                    result |-> _parse_imports(node, parent_module,
                                              local_modules)]
    /\ pc' = "imported"
    /\ UNCHANGED <<modules, symbol_table, module_name_map, cursor,
                   call_graph, entry_function, visit_stack, frames, out,
                   files, log>>

NextImports == parse_imports

SpecImports == InitImports /\ [][NextImports]_vars

----------------------------------------------------------------------------
(* Element Extractor: one file (PythonParser.parse_file) and a directory   *)
(* (BaseParser.parse_directory).  A file is [path, body, nodes]: its path  *)
(* [parts, stem, suffix] (the directories from the filesystem root, the    *)
(* file name split at its extension), its text as lines, and the           *)
(* top-level statements ast.parse finds in it.  A definition node is       *)
(* [type, name, args, lineno, end_lineno, body].                           *)

Path(parts, stem, suffix) == [parts |-> parts, stem |-> stem, suffix |-> suffix]

FunctionDef(name, args, lineno, end_lineno) ==
    [type |-> "FunctionDef", name |-> name, args |-> args,
     lineno |-> lineno, end_lineno |-> end_lineno, body |-> << >>]

ClassDef(name, lineno, end_lineno, body) ==
    [type |-> "ClassDef", name |-> name, args |-> << >>,
     lineno |-> lineno, end_lineno |-> end_lineno, body |-> body]

File(path, body, nodes) == [path |-> path, body |-> body, nodes |-> nodes]

\* the value that stands for parse_file raising instead of returning
Raised == [raised |-> TRUE]

\* PythonParser.can_parse
can_parse(path) == path.suffix \in {".py", ".pyw"}

\* ast.parse(content) succeeds
SourceParses(body) == \A i \in DOMAIN body : body[i].valid

\* ', '.join(params), each parameter rendered as 'name: Any'
RECURSIVE JoinParams(_)
JoinParams(args) ==
    IF args = << >> THEN ""
    ELSE IF Len(args) = 1 THEN args[1] \o ": Any"
    ELSE args[1] \o ": Any, " \o JoinParams(Tail(args))

_parse_function(node, parent_name) ==
    FunctionElement(parent_name \o <<node.name>>,
        parent_name \o <<node.name \o "(" \o JoinParams(node.args)
                             \o ") -> Any">>,
        node.lineno, node.end_lineno)

RECURSIVE _parse_class(_, _)
_parse_class(node, parent_name) ==
    LET name == parent_name \o <<node.name>>
        defs == SelectSeq(node.body, LAMBDA n : n.type = "FunctionDef")
        inner == SelectSeq(node.body, LAMBDA n : n.type = "ClassDef")
    IN  ClassElement(name, node.lineno, node.end_lineno,
            [i \in DOMAIN defs |-> _parse_function(defs[i], name)],
            [i \in DOMAIN inner |-> _parse_class(inner[i], name)])

\* dict.update
Update(table, other) ==
    [k \in DOMAIN table \cup DOMAIN other |->
        IF k \in DOMAIN other THEN other[k] ELSE table[k]]

\* BaseParser._create_error_module: name = path.name, error = str(error)
_create_error_module(path) ==
    [ModuleElement(<<path.stem, "py">>, EmptyTable, << >>, << >>, << >>)
        EXCEPT !.path = path, !.error = <<"invalid syntax">>]

\* the try block of parse_file, for a text that ast.parse accepts
parse_source(file, package_name, local_modules) ==
    LET parts == file.path.parts
        \* path.relative_to(path.parent.parent): the last directory and
        \* the file
        parent_module == IF parts = << >> THEN None
                         ELSE <<parts[Len(parts)]>>
        relative_name == parent_module \o <<file.path.stem>>
        module_name == IF package_name # None
                       THEN package_name \o relative_name
                       ELSE relative_name
        classes == SelectSeq(file.nodes, LAMBDA n : n.type = "ClassDef")
        functions == SelectSeq(file.nodes, LAMBDA n : n.type = "FunctionDef")
        imports == SelectSeq(file.nodes,
                       LAMBDA n : n.type \in {"Import", "ImportFrom"})
        M[i \in 0..Len(imports)] ==
            IF i = 0 THEN EmptyTable
            ELSE Update(M[i - 1],
                        _parse_imports(imports[i], parent_module,
                                       local_modules))
    IN  [ModuleElement(module_name, M[Len(imports)], file.body,
             [i \in DOMAIN functions |->
                 _parse_function(functions[i], module_name)],
             [i \in DOMAIN classes |-> _parse_class(classes[i], module_name)])
            EXCEPT !.path = file.path]

\* variant: the failure is raised to the caller
parse_file_reraise(file, package_name, local_modules) ==
    IF ~SourceParses(file.body) THEN Raised
    ELSE parse_source(file, package_name, local_modules)

parse_file(file, package_name, local_modules) ==
    IF ~SourceParses(file.body) THEN _create_error_module(file.path)
    ELSE parse_source(file, package_name, local_modules)

----------------------------------------------------------------------------
(* A directory of source files under the root /repo, parsed by             *)
(* parse_directory: files at depth 0, 1 and 2 below the root and a text    *)
(* file; a Python file is malformed, empty, holds import statements or     *)
(* holds definitions.                                                      *)

Root == <<"repo">>

SourcePaths ==
    {Path(Root, "a", ".py"),
     Path(Root \o <<"pkg">>, "a", ".py"),
     Path(Root \o <<"pkg", "parent">>, "child", ".py")}

\* n well-formed lines at column 0
Text(n) == [i \in 1..n |-> Line(0, << >>)]

Malformed == <<[indent |-> 0, calls |-> << >>, valid |-> FALSE]>>

\* relative imports of every level
RelativeImports ==
    {ImportFrom(None, l, <<Alias(<<"N">>, None)>>) : l \in 1..MaxLevel}
    \cup {ImportFrom(<<"M">>, 2, <<Alias(<<"uncle">>, None)>>)}

ImportOs == Import(<<Alias(<<"os">>, None)>>)

\* the import statements of a file: a relative import, alone or with
\* 'import os' before or after it
FileImports ==
    {<<r>> : r \in RelativeImports}
    \cup {<<r, ImportOs>> : r \in RelativeImports}
    \cup {<<ImportOs, r>> : r \in RelativeImports}

Definitions ==
    <<ClassDef("K", 1, 5,
          <<FunctionDef("meth", <<"self">>, 2, 2),
            ClassDef("In", 3, 5, <<FunctionDef("m", <<"self">>, 4, 5)>>)>>),
      FunctionDef("f", << >>, 6, 7)>>

SourceTexts ==
    {<<Malformed, << >>>>, <<Text(0), << >>>>, <<Text(7), Definitions>>}
    \cup {<<Text(Len(q)), q>> : q \in FileImports}

SourceFiles ==
    {File(p, t[1], t[2]) : p \in SourcePaths, t \in SourceTexts}
    \cup {File(Path(Root, "notes", ".txt"), Text(1), << >>)}

\* the files path.rglob('*') yields: distinct paths, in some order
Directories ==
    {q \in SeqsUpTo(SourceFiles, MaxFiles) :
        /\ q # << >>
        /\ \A i, j \in DOMAIN q : i # j => q[i].path # q[j].path}

InitParse ==
    /\ files \in Directories
    /\ modules = << >>
    /\ symbol_table = EmptyTable
    /\ module_name_map = EmptyTable
    /\ pc = "walk"
    /\ cursor = 1
    /\ probe = NoProbe
    /\ log = << >>
    /\ IdleUnroller

\* one iteration of the loop of parse_directory
parse_directory ==
    /\ pc = "walk"
    /\ cursor <= Len(files)
    /\ LET module == parse_file(files[cursor], None, {})
       IN  modules' = IF ~can_parse(files[cursor].path) \/ module = Raised
                      THEN modules
                      ELSE Append(modules, module)
    /\ cursor' = cursor + 1
    /\ pc' = IF cursor = Len(files) THEN "parsed" ELSE "walk"
    /\ UNCHANGED <<symbol_table, module_name_map, probe, call_graph,
                   entry_function, visit_stack, frames, out, files, log>>

NextParse == parse_directory

SpecParse == InitParse /\ [][NextParse]_vars

----------------------------------------------------------------------------
(* MainParserEngine: construction and parse_repository.  The components    *)
(* the engine imports on demand may fail: the faults of a run are the set  *)
(* of the failures that happen in it.  The log holds, per step that ran,   *)
(* whether it passed, logged an error and went on, or raised.              *)

Steps == <<"_build_directory_tree", "_detect_languages", "_parse_code_files",
           "_parse_documentation_files", "_extract_metadata", "RepositoryData">>

\* the failure of a step that no handler of its own catches
Uncaught(step) ==
    CASE step = "_detect_languages" -> "LanguageDetector"
      [] step = "_parse_documentation_files" -> "DocumentationParser"
      [] step = "_extract_metadata" -> "MetadataExtractor"
      [] OTHER -> "none"

\* the failure of a step that the step catches and logs
Caught(step) ==
    CASE step = "_build_directory_tree" -> "entry"
      [] step = "_parse_code_files" -> "code file"
      [] step = "_parse_documentation_files" -> "documentation file"
      [] step = "RepositoryData" -> "remote url"
      [] OTHER -> "none"

Faults == {"LanguageDetector", "DocumentationParser", "MetadataExtractor",
           "entry", "code file", "documentation file", "remote url"}

\* the body of the try block of parse_repository: the steps in order, up to
\* the first that raises
RECURSIVE RunSteps(_, _)
RunSteps(steps, faults) ==
    IF steps = << >> THEN << >>
    ELSE IF Uncaught(Head(steps)) \in faults
         THEN <<[step |-> Head(steps), outcome |-> "raised"]>>
         ELSE <<[step |-> Head(steps),
                 outcome |-> IF Caught(Head(steps)) \in faults
                             THEN "logged" ELSE "passed"]>>
              \o RunSteps(Tail(steps), faults)

InitEngine ==
    /\ \E path \in {"missing", "file", "directory"}, faults \in SUBSET Faults :
          probe = [repository_path |-> path, faults |-> faults, error |-> None]
    /\ modules = << >>
    /\ symbol_table = EmptyTable
    /\ module_name_map = EmptyTable
    /\ pc = "new"
    /\ cursor = 0
    /\ files = << >>
    /\ log = << >>
    /\ IdleUnroller

\* MainParserEngine.__init__
MainParserEngine ==
    /\ pc = "new"
    /\ probe' = [probe EXCEPT !.error =
                    IF probe.repository_path = "missing"
                    THEN <<"Repository path does not exist">>
                    ELSE IF probe.repository_path = "file"
                    THEN <<"Repository path is not a directory">>
                    ELSE None]
    /\ pc' = IF probe.repository_path = "directory" THEN "engine" ELSE "raised"
    /\ UNCHANGED <<modules, symbol_table, module_name_map, cursor, call_graph,
                   entry_function, visit_stack, frames, out, files, log>>

\* MainParserEngine.parse_repository: an exception of the try block is
\* logged and raised again
parse_repository ==
    /\ pc = "engine"
    /\ LET run == RunSteps(Steps, probe.faults)
       IN  /\ log' = run
           /\ pc' = IF run[Len(run)].outcome = "raised" THEN "raised"
                    ELSE "parsed"
           /\ probe' = [probe EXCEPT !.error =
                           IF run[Len(run)].outcome = "raised"
                           THEN <<Uncaught(run[Len(run)].step)>> ELSE None]
    /\ UNCHANGED <<modules, symbol_table, module_name_map, cursor, call_graph,
                   entry_function, visit_stack, frames, out, files>>

NextEngine == MainParserEngine \/ parse_repository

SpecEngine == InitEngine /\ [][NextEngine]_vars

----------------------------------------------------------------------------
(* Call Graph Builder (MainParser.build_call_graph) *)

\* the functions and methods of all modules
AllFunctions(mods) == ResolveOrder(mods)

\* the edges one function contributes, in call-list order
FunctionEdges(function, table) ==
    LET kept == SelectSeq(function.function_calls,
                          LAMBDA c : c.resolved_name \in DOMAIN table)
    IN  IF function.qualified_name \in DOMAIN table
        THEN [i \in 1..Len(kept) |->
                 <<function.qualified_name, kept[i].resolved_name>>]
        ELSE << >>

AllEdges(mods, table) ==
    LET refs == AllFunctions(mods)
        F[i \in 0..Len(refs)] ==
            IF i = 0 THEN << >>
            ELSE F[i - 1] \o FunctionEdges(ElementAt(mods, refs[i]), table)
    IN  F[Len(refs)]

\* variant: a callee already recorded for the caller is not recorded again
AddEdgeOnce(graph, edge) ==
    IF edge[1] \in DOMAIN graph /\ InSeq(edge[2], graph[edge[1]])
    THEN graph
    ELSE Put(graph, edge[1],
             Append(IF edge[1] \in DOMAIN graph THEN graph[edge[1]] ELSE << >>,
                    edge[2]))

AddEdge(graph, edge) ==
    Put(graph, edge[1],
        Append(IF edge[1] \in DOMAIN graph THEN graph[edge[1]] ELSE << >>,
               edge[2]))

BuildCallGraph(mods, table) ==
    LET edges == AllEdges(mods, table)
        F[i \in 0..Len(edges)] ==
            IF i = 0 THEN EmptyTable ELSE AddEdge(F[i - 1], edges[i])
    IN  F[Len(edges)]

build_call_graph ==
    /\ pc = "resolved"
    /\ call_graph' = BuildCallGraph(modules, symbol_table)
    /\ pc' = "graphed"
    /\ UNCHANGED <<modules, symbol_table, module_name_map, cursor, probe,
                   entry_function, visit_stack, frames, out, files, log>>

----------------------------------------------------------------------------
(* Call-Flow Unroller (MainParser.display_function_source_and_calls).      *)
(* The recursion is a stack of frames [symbol, pc, line, call,             *)
(* entry_stack]: the symbol of the invocation, its position, the slice     *)
(* line being rendered, the index of the next call reference to look at,   *)
(* and the visit stack as it was on entry.  The trace is a sequence of     *)
(* events, one per printed line; widths of indentation are not modelled.   *)

\* site: for a call marker, the calling symbol and the index of the Call
\* reference in its call list
Event(kind, symbol, line, path, site) ==
    [kind |-> kind, symbol |-> symbol, line |-> line, path |-> path,
     site |-> site]

Frame(symbol, stack) ==
    [symbol |-> symbol, pc |-> "enter", line |-> 0, call |-> 1,
     entry_stack |-> stack]

Top == frames[Len(frames)]

SetTop(frame) == [frames EXCEPT ![Len(frames)] = frame]

FirstIndex(x, q) == CHOOSE i \in 1..Len(q) : q[i] = x /\ \A j \in 1..(i - 1) : q[j] # x

\* variant: a symbol rendered before counts as a cycle too
OnActivePathOrRendered(symbol) ==
    \/ InSeq(symbol, visit_stack)
    \/ \E i \in 1..Len(out) : out[i].kind = "def" /\ out[i].symbol = symbol

\* variant: the oldest entry of the visit stack is not looked at
OnActivePathButFirst(symbol) ==
    visit_stack # << >> /\ InSeq(symbol, Tail(visit_stack))

\* the symbol is on the active call path
OnActivePath(symbol) == InSeq(symbol, visit_stack)

\* the path from the first occurrence of the symbol back to itself
CyclePath(symbol) ==
    IF InSeq(symbol, visit_stack)
    THEN SubSeq(visit_stack, FirstIndex(symbol, visit_stack), Len(visit_stack))
             \o <<symbol>>
    ELSE <<symbol>>

SymbolElement(symbol) == ElementAt(modules, symbol_table[symbol])

SymbolSource(symbol) ==
    SourceSlice(SymbolElement(symbol), modules[symbol_table[symbol][1]])

SymbolCalls(symbol) ==
    IF IsClassRef(symbol_table[symbol]) THEN << >>
    ELSE SymbolElement(symbol).function_calls

\* index of the next call reference attributed to the frame's line, or 0
NextCall(frame) ==
    LET calls == SymbolCalls(frame.symbol)
        J == {j \in frame.call..Len(calls) : calls[j].line_number = frame.line}
    IN  IF J = {} THEN 0 ELSE CHOOSE j \in J : \A k \in J : j <= k

Unrolling == pc = "unroll" /\ frames # << >>

UnrollerFrame == <<modules, symbol_table, module_name_map, cursor, probe,
                   call_graph, entry_function, files, log>>

display_function_source_and_calls ==
    /\ pc = "graphed"
    /\ pc' = "unroll"
    /\ frames' = <<Frame(entry_function, << >>)>>
    /\ visit_stack' = << >>
    /\ out' = << >>
    /\ UNCHANGED UnrollerFrame

\* variant: on a cycle the invocation neither prints nor returns
unroll_cycle_spin ==
    /\ Unrolling
    /\ Top.pc = "enter"
    /\ OnActivePath(Top.symbol)
    /\ UNCHANGED <<pc, visit_stack, frames, out>>
    /\ UNCHANGED UnrollerFrame

\* the symbol is on the visit stack: print the (cycle) line and return
unroll_cycle ==
    /\ Unrolling
    /\ Top.pc = "enter"
    /\ OnActivePath(Top.symbol)
    /\ out' = Append(out, Event("(cycle)", Top.symbol, 0,
                            CyclePath(Top.symbol), << >>))
    /\ frames' = SetTop([Top EXCEPT !.pc = "return"])
    /\ UNCHANGED <<pc, visit_stack>>
    /\ UNCHANGED UnrollerFrame

unroll_unknown ==
    /\ Unrolling
    /\ Top.pc = "enter"
    /\ ~OnActivePath(Top.symbol)
    /\ Top.symbol \notin DOMAIN symbol_table
    /\ out' = Append(out, Event("unresolved or built-in", Top.symbol, 0,
                            << >>, << >>))
    /\ frames' = SetTop([Top EXCEPT !.pc = "return"])
    /\ UNCHANGED <<pc, visit_stack>>
    /\ UNCHANGED UnrollerFrame

unroll_expand ==
    /\ Unrolling
    /\ Top.pc = "enter"
    /\ ~OnActivePath(Top.symbol)
    /\ Top.symbol \in DOMAIN symbol_table
    /\ visit_stack' = Append(visit_stack, Top.symbol)
    /\ out' = Append(out, Event("def", Top.symbol, 0, << >>, << >>))
    /\ frames' = SetTop([Top EXCEPT !.pc = "calls", !.line = 0, !.call = 1])
    /\ UNCHANGED pc
    /\ UNCHANGED UnrollerFrame

unroll_line ==
    /\ Unrolling
    /\ Top.pc = "calls"
    /\ NextCall(Top) = 0
    /\ Top.line < Len(SymbolSource(Top.symbol))
    /\ out' = Append(out, Event("line", Top.symbol, Top.line + 1, << >>, << >>))
    /\ frames' = SetTop([Top EXCEPT !.line = Top.line + 1, !.call = 1])
    /\ UNCHANGED <<pc, visit_stack>>
    /\ UNCHANGED UnrollerFrame

unroll_call_unresolved ==
    /\ Unrolling
    /\ Top.pc = "calls"
    /\ NextCall(Top) # 0
    /\ SymbolCalls(Top.symbol)[NextCall(Top)].resolved_name = None
    /\ out' = Append(out, Event("(unresolved)",
                            SymbolCalls(Top.symbol)[NextCall(Top)].name,
                            Top.line, << >>,
                            <<Top.symbol, NextCall(Top)>>))
    /\ frames' = SetTop([Top EXCEPT !.call = NextCall(Top) + 1])
    /\ UNCHANGED <<pc, visit_stack>>
    /\ UNCHANGED UnrollerFrame

unroll_call ==
    /\ Unrolling
    /\ Top.pc = "calls"
    /\ NextCall(Top) # 0
    /\ SymbolCalls(Top.symbol)[NextCall(Top)].resolved_name # None
    /\ LET callee == SymbolCalls(Top.symbol)[NextCall(Top)].resolved_name
       IN  /\ out' = Append(out, Event("-> calls", callee, Top.line, << >>,
                                    <<Top.symbol, NextCall(Top)>>))
           /\ frames' = Append(SetTop([Top EXCEPT !.call = NextCall(Top) + 1]),
                               Frame(callee, visit_stack))
    /\ UNCHANGED <<pc, visit_stack>>
    /\ UNCHANGED UnrollerFrame

\* variant: the symbol is left on the visit stack
unroll_finish_no_pop ==
    /\ Unrolling
    /\ Top.pc = "calls"
    /\ NextCall(Top) = 0
    /\ Top.line >= Len(SymbolSource(Top.symbol))
    /\ frames' = SetTop([Top EXCEPT !.pc = "return"])
    /\ UNCHANGED <<pc, out, visit_stack>>
    /\ UNCHANGED UnrollerFrame

\* after all lines: pop the symbol from the visit stack
unroll_finish ==
    /\ Unrolling
    /\ Top.pc = "calls"
    /\ NextCall(Top) = 0
    /\ Top.line >= Len(SymbolSource(Top.symbol))
    /\ visit_stack' = SubSeq(visit_stack, 1, Len(visit_stack) - 1)
    /\ frames' = SetTop([Top EXCEPT !.pc = "return"])
    /\ UNCHANGED <<pc, out>>
    /\ UNCHANGED UnrollerFrame

unroll_return ==
    /\ Unrolling
    /\ Top.pc = "return"
    /\ frames' = SubSeq(frames, 1, Len(frames) - 1)
    /\ pc' = IF Len(frames) = 1 THEN "done" ELSE pc
    /\ UNCHANGED <<out, visit_stack>>
    /\ UNCHANGED UnrollerFrame

Next ==
    \/ parse_repo
    \/ build_symbol_table
    \/ resolve_function_calls
    \/ build_call_graph
    \/ display_function_source_and_calls
    \/ unroll_cycle
    \/ unroll_unknown
    \/ unroll_expand
    \/ unroll_line
    \/ unroll_call_unresolved
    \/ unroll_call
    \/ unroll_finish
    \/ unroll_return

Spec == Init /\ [][Next]_vars

\* the steps of display_function_source_and_calls
Unroll ==
    \/ display_function_source_and_calls
    \/ unroll_cycle
    \/ unroll_unknown
    \/ unroll_expand
    \/ unroll_line
    \/ unroll_call_unresolved
    \/ unroll_call
    \/ unroll_finish
    \/ unroll_return

\* the run is one sequential program: once the call graph is built the
\* rendering keeps taking steps until it returns
FairSpec == Spec /\ WF_vars(Unroll)

----------------------------------------------------------------------------
(* Properties of _resolve_call, checked under SpecResolve *)

Probed == pc \in {"probed", "reprobed"}

ImportsMapping == owner.imports_mapping

IsAlias(a) == a \in DOMAIN ImportsMapping

Keys == DOMAIN symbol_table

LocalName(n) == owner.name \o n

ImportedName(n) == ImportsMapping[n[1]] \o n

ImportMatch(n) == IsAlias(n[1]) /\ ImportedName(n) \in Keys

\* C1: a literal containing a '.' is split at its first '.'; if the first
\* segment is a key of the owning module's import-alias table the result is
\* the alias target followed by the rest, otherwise the literal unchanged.
C1_DottedResolution ==
    (Probed /\ Dotted(probe.name)) =>
        IF IsAlias(Head(probe.name))
        THEN probe.result = ImportsMapping[Head(probe.name)] \o Tail(probe.name)
        ELSE probe.result = probe.name

\* a three-segment literal whose first segment is an alias has been rewritten
C1_Witness ==
    /\ Probed
    /\ Len(probe.name) = 3
    /\ IsAlias(Head(probe.name))
    /\ probe.result = ImportsMapping[Head(probe.name)] \o Tail(probe.name)
    /\ probe.result # probe.name

\* C2: a bare built-in name resolves to itself, whatever the symbol table
\* and the import-alias table hold.
C2_BuiltinFirst ==
    (Probed /\ ~Dotted(probe.name) /\ probe.name[1] \in Builtins) =>
        probe.result = probe.name

\* a built-in name resolved to itself although the local and the global
\* candidates are both symbol-table keys
C2_Witness ==
    /\ Probed
    /\ ~Dotted(probe.name)
    /\ probe.name[1] \in Builtins
    /\ LocalName(probe.name) \in Keys
    /\ probe.name \in Keys
    /\ probe.result = probe.name

\* C3: a bare name that is not a built-in resolves to the first applicable
\* of: local scope, import alias, global fallback; to None when none applies.
C3_BarePrecedence ==
    (Probed /\ ~Dotted(probe.name) /\ probe.name[1] \notin Builtins) =>
        LET n == probe.name
        IN  /\ LocalName(n) \in Keys => probe.result = LocalName(n)
            /\ (LocalName(n) \notin Keys /\ ImportMatch(n)) =>
                   probe.result = ImportedName(n)
            /\ (LocalName(n) \notin Keys /\ ~ImportMatch(n) /\ n \in Keys) =>
                   probe.result = n
            /\ (LocalName(n) \notin Keys /\ ~ImportMatch(n) /\ n \notin Keys) =>
                   probe.result = None

\* the local match shadows an import-alias match of a different name
C3_Witness ==
    /\ Probed
    /\ ~Dotted(probe.name)
    /\ probe.name[1] \notin Builtins
    /\ LocalName(probe.name) \in Keys
    /\ ImportMatch(probe.name)
    /\ ImportedName(probe.name) # LocalName(probe.name)
    /\ probe.result = LocalName(probe.name)

\* C4 as stated: a dot-free literal that is not an import alias and equals
\* a symbol-table key resolves to itself.
C4_RoundTrip_Original ==
    (Probed /\ ~Dotted(probe.name) /\ ~IsAlias(probe.name[1])
            /\ probe.name \in Keys) =>
        probe.result = probe.name

\* C4 amended: ... and '<owning-module>.<literal>' is not a symbol-table
\* key: then the literal resolves to itself.
C4_RoundTrip ==
    (Probed /\ ~Dotted(probe.name) /\ ~IsAlias(probe.name[1])
            /\ probe.name \in Keys /\ LocalName(probe.name) \notin Keys) =>
        probe.result = probe.name

\* a literal that is no built-in resolved to itself by the global fallback
C4_Witness ==
    /\ Probed
    /\ ~Dotted(probe.name)
    /\ probe.name[1] \notin Builtins
    /\ ~IsAlias(probe.name[1])
    /\ probe.name \in Keys
    /\ LocalName(probe.name) \notin Keys
    /\ probe.result = probe.name

\* C5: an invocation of _resolve_call changes neither the symbol table nor
\* the modules (their names and import-alias tables), and a second
\* invocation with the same table, module and literal, from whatever
\* function, returns the same result.
C5_Pure ==
    [][(pc' \in {"probed", "reprobed"} /\ pc' # pc) =>
          /\ symbol_table' = symbol_table
          /\ modules' = modules
          /\ (pc' = "reprobed" =>
                 probe'.name = probe.name /\ probe'.result = probe.result)]_vars

\* the same literal was resolved from two different functions to a
\* symbol-table key
C5_Witness ==
    /\ pc = "reprobed"
    /\ probe.callers[1] # probe.callers[2]
    /\ probe.result \in Keys

----------------------------------------------------------------------------
(* Properties of the call graph and of the unroller, checked under Spec *)

Resolved == pc \in {"resolved", "graphed", "unroll", "done"}

Graphed == pc \in {"graphed", "unroll", "done"}

mA == <<"m", "A">>
mB == <<"m", "B">>
mC == <<"m", "C">>
nD == <<"n", "D">>

ResolvedNames(symbol) ==
    [i \in 1..Len(SymbolCalls(symbol)) |-> SymbolCalls(symbol)[i].resolved_name]

Count(kind, symbol) ==
    Cardinality({i \in 1..Len(out) :
                    out[i].kind = kind /\ out[i].symbol = symbol})

Kinds == {out[i].kind : i \in 1..Len(out)}

\* A calls B and B calls A, and A is the entry
CycleAB ==
    /\ Graphed
    /\ entry_function = mA
    /\ ResolvedNames(mA) = <<mB>>
    /\ ResolvedNames(mB) = <<mA>>

CycleTrace ==
    <<Event("def", mA, 0, << >>, << >>),
      Event("line", mA, 1, << >>, << >>),
      Event("line", mA, 2, << >>, << >>),
      Event("-> calls", mB, 2, << >>, <<mA, 1>>),
      Event("def", mB, 0, << >>, << >>),
      Event("line", mB, 1, << >>, << >>),
      Event("line", mB, 2, << >>, << >>),
      Event("-> calls", mA, 2, << >>, <<mB, 1>>),
      Event("(cycle)", mA, 0, <<mA, mB, mA>>, << >>)>>

\* C6: when A calls B and B calls A, rendering entry A prints A's body
\* once, the call to B, B's body once, the call back to A and one (cycle)
\* marker, in this order, never recurses into A again, and finishes.
C6_CycleDetection ==
    /\ [](CycleAB => Len(frames) <= 3)
    /\ []((CycleAB /\ pc = "done") => out = CycleTrace)
    /\ (CycleAB /\ pc = "graphed") ~> (pc = "done")

C6_Witness ==
    /\ CycleAB
    /\ pc = "done"
    /\ Count("(cycle)", mA) = 1
    /\ Count("def", mA) = 1
    /\ Count("def", mB) = 1

\* A calls B and C, B and C each call D, D calls nothing; A is the entry
Diamond ==
    /\ Graphed
    /\ entry_function = mA
    /\ ResolvedNames(mA) = <<mB, mC>>
    /\ ResolvedNames(mB) = <<nD>>
    /\ ResolvedNames(mC) = <<nD>>
    /\ ResolvedNames(nD) = << >>

\* C7: in the diamond, D's body is rendered twice and there is no (cycle)
\* marker; a (cycle) marker is emitted only for a symbol that is on the
\* visit stack at that moment.
C7_NoMemoization ==
    /\ []((Diamond /\ pc = "done") =>
            /\ Count("def", nD) = 2
            /\ Count("line", nD) = 2 * Len(SymbolSource(nD))
            /\ Count("def", mB) = 1
            /\ Count("def", mC) = 1
            /\ "(cycle)" \notin Kinds)
    /\ [][(Len(out') = Len(out) + 1 /\ out'[Len(out')].kind = "(cycle)") =>
             InSeq(out'[Len(out')].symbol, visit_stack)]_vars

C7_Witness ==
    /\ Diamond
    /\ pc = "done"
    /\ Count("def", nD) = 2

FunctionRefs ==
    {ResolveOrder(modules)[k] : k \in 1..Len(ResolveOrder(modules))}

\* the call references of all functions: <<reference, index>>
CallRefs ==
    UNION {{<<ref, i>> : i \in 1..Len(ElementAt(modules, ref).function_calls)} :
              ref \in FunctionRefs}

CallAt(cr) == ElementAt(modules, cr[1]).function_calls[cr[2]]

\* the literal has no built-in, local, import-alias or global entry, seen
\* from the module that contains the call
NoEntry(name, module) ==
    IF Dotted(name)
    THEN /\ name \notin Keys
         /\ Head(name) \in DOMAIN module.imports_mapping =>
                module.imports_mapping[Head(name)] \o Tail(name) \notin Keys
    ELSE /\ name[1] \notin Builtins
         /\ module.name \o name \notin Keys
         /\ ~(/\ name[1] \in DOMAIN module.imports_mapping
              /\ module.imports_mapping[name[1]] \o name \in Keys)
         /\ name \notin Keys

IsExpansion(kind) == kind \in {"def", "unresolved or built-in", "(cycle)"}

\* the call markers of the trace whose literal has no entry
LeafMarkers ==
    {i \in 1..Len(out) :
        /\ out[i].site # << >>
        /\ NoEntry(SymbolCalls(out[i].site[1])[out[i].site[2]].name,
                   modules[symbol_table[out[i].site[1]][1]])}

MarkerLiteral(i) == SymbolCalls(out[i].site[1])[out[i].site[2]].name

LeafCalls == {cr \in CallRefs : NoEntry(CallAt(cr).name, modules[cr[1][1]])}

NotACallee(name) ==
    \A k \in DOMAIN call_graph : ~InSeq(name, call_graph[k])

\* C8 as stated: every call whose literal, bare or dotted, has no entry is
\* left without resolved_name, is rendered as an (unresolved) marker with
\* no recursion, and contributes no edge.
C8_UnresolvedLeaf_Original ==
    Resolved =>
        /\ \A cr \in LeafCalls : CallAt(cr).resolved_name = None
        /\ \A i \in LeafMarkers :
              /\ out[i].kind = "(unresolved)"
              /\ i < Len(out) => ~IsExpansion(out[i + 1].kind)
        /\ \A cr \in LeafCalls : NotACallee(CallAt(cr).resolved_name)

\* C8 amended: a bare literal with no entry is left without resolved_name,
\* is rendered as an (unresolved) marker with no recursion and contributes
\* no edge; a dotted literal always gets a resolved_name (itself, or its
\* alias-rewritten form), so with no entry it is rendered as a '-> calls'
\* marker followed by an 'unresolved or built-in' leaf, and contributes no
\* edge either.
C8_UnresolvedLeaf ==
    Resolved =>
        /\ \A cr \in LeafCalls :
              LET c == CallAt(cr)
                  imports == modules[cr[1][1]].imports_mapping
              IN  IF Dotted(c.name)
                  THEN c.resolved_name =
                         IF Head(c.name) \in DOMAIN imports
                         THEN imports[Head(c.name)] \o Tail(c.name)
                         ELSE c.name
                  ELSE c.resolved_name = None
        /\ \A i \in LeafMarkers :
              IF Dotted(MarkerLiteral(i))
              THEN /\ out[i].kind = "-> calls"
                   /\ i < Len(out) =>
                         /\ out[i + 1].kind = "unresolved or built-in"
                         /\ out[i + 1].symbol = out[i].symbol
              ELSE /\ out[i].kind = "(unresolved)"
                   /\ i < Len(out) => ~IsExpansion(out[i + 1].kind)
        /\ \A cr \in LeafCalls : NotACallee(CallAt(cr).resolved_name)

\* a finished trace with an (unresolved) marker for a bare literal and a
\* leaf for a dotted one
C8_Witness ==
    /\ pc = "done"
    /\ \E i \in LeafMarkers :
          ~Dotted(MarkerLiteral(i)) /\ out[i].kind = "(unresolved)"
    /\ \E i \in LeafMarkers :
          /\ Dotted(MarkerLiteral(i))
          /\ i < Len(out)
          /\ out[i + 1].kind = "unresolved or built-in"

Callees(key) == IF key \in DOMAIN call_graph THEN call_graph[key] ELSE << >>

\* the resolved names of a function's calls that are symbol-table keys
ResolvedKeys(function) ==
    LET F[i \in 0..Len(function.function_calls)] ==
            IF i = 0 THEN << >>
            ELSE IF function.function_calls[i].resolved_name \in Keys
                 THEN Append(F[i - 1], function.function_calls[i].resolved_name)
                 ELSE F[i - 1]
    IN  F[Len(function.function_calls)]

\* C9: for every function or method whose qualified name is a symbol-table
\* key, its callee sequence is the sequence, in call-list order, of the
\* resolved names of its calls that are symbol-table keys, duplicates and
\* self-edges included.
C9_CallGraph ==
    Graphed =>
        \A ref \in FunctionRefs :
            ElementAt(modules, ref).qualified_name \in Keys =>
                Callees(ElementAt(modules, ref).qualified_name)
                    = ResolvedKeys(ElementAt(modules, ref))

\* a duplicate edge, a self-edge and a built-in call without an edge
C9_Witness ==
    /\ Graphed
    /\ Callees(mA) = <<mB, mB>>
    /\ Callees(nD) = <<nD>>
    /\ ResolvedNames(mB) = <<<<"print">>>>
    /\ Callees(mB) = << >>

\* C10: when an invocation of the unroller returns, the visit stack is
\* what it was when the invocation was entered.
C10_StackRestored ==
    (Unrolling /\ Top.pc = "return") => visit_stack = Top.entry_stack

\* a nested invocation that expanded its symbol is about to return
C10_Witness ==
    /\ Unrolling
    /\ Len(frames) >= 2
    /\ Top.pc = "return"
    /\ Top.symbol \in Keys
    /\ ~InSeq(Top.symbol, Top.entry_stack)
    /\ visit_stack = Top.entry_stack

----------------------------------------------------------------------------
(* Properties of the build phase, checked under SpecIndex *)

Built == pc \in {"built", "resolved"}

\* the names a class declares: its own, its methods', and those of its
\* nested classes
RECURSIVE ClassDeclarations(_)
ClassDeclarations(c) ==
    {c.name} \cup {c.methods[i].name : i \in DOMAIN c.methods}
             \cup UNION {ClassDeclarations(c.inner_classes[i]) :
                            i \in DOMAIN c.inner_classes}

DeclaredNames ==
    UNION {{modules[mi].functions[fi].name : fi \in DOMAIN modules[mi].functions}
           \cup UNION {ClassDeclarations(modules[mi].classes[ci]) :
                          ci \in DOMAIN modules[mi].classes} :
           mi \in DOMAIN modules}

\* C11: after the build phase the simple qualified name of every class and
\* function of every module is a symbol-table key: top-level functions,
\* classes, their methods, nested classes and the methods of nested classes.
C11_Completeness ==
    Built => DeclaredNames \subseteq Keys

\* the top-level classes, their methods and the top-level functions
IndexedRefs ==
    UNION {{<<mi, 0, fi>> : fi \in DOMAIN modules[mi].functions}
           \cup UNION {{<<mi, ci, fi>> :
                            fi \in 0..Len(modules[mi].classes[ci].methods)} :
                          ci \in DOMAIN modules[mi].classes} :
           mi \in DOMAIN modules}

NameOf(ref) == ElementAt(modules, ref).name

\* r comes before s in the indexing order: modules in list order; within a
\* module each class, then its methods; then the top-level functions
IndexedBefore(r, s) ==
    \/ r[1] < s[1]
    \/ r[1] = s[1] /\ r[2] > 0 /\ s[2] = 0
    \/ r[1] = s[1] /\ r[2] > 0 /\ s[2] > 0 /\ r[2] < s[2]
    \/ r[1] = s[1] /\ r[2] = s[2] /\ r[3] < s[3]

\* C12: after the build phase every name shared by several declarations
\* has one entry, which denotes the declaration indexed last (modules in
\* list order; within a module each class, then its methods, then the
\* top-level functions), and the table has as many entries as there are
\* distinct names among these declarations.
C12_LastWins ==
    Built =>
        /\ \A r \in IndexedRefs :
              /\ NameOf(r) \in Keys
              /\ symbol_table[NameOf(r)] \in IndexedRefs
              /\ NameOf(symbol_table[NameOf(r)]) = NameOf(r)
              /\ \/ symbol_table[NameOf(r)] = r
                 \/ IndexedBefore(r, symbol_table[NameOf(r)])
        /\ Cardinality(Keys) = Cardinality({NameOf(r) : r \in IndexedRefs})

\* a method, a function of the same module and a function of the other
\* module share one name, and a class shares its name with a function
C12_Witness ==
    /\ Built
    /\ \E r, s, t \in IndexedRefs :
          /\ r[2] > 0 /\ r[3] > 0
          /\ s[1] = r[1] /\ s[2] = 0
          /\ t[1] # r[1]
          /\ NameOf(r) = NameOf(s) /\ NameOf(s) = NameOf(t)
          /\ symbol_table[NameOf(r)] = t
    /\ \E r, s \in IndexedRefs :
          IsClassRef(r) /\ ~IsClassRef(s) /\ NameOf(r) = NameOf(s)

\* C13: after the build phase the element stored under a key has that key
\* as its qualified_name.
C13_QualifiedNameIsKey ==
    Built =>
        \A k \in Keys : ElementAt(modules, symbol_table[k]).qualified_name = k

\* a function that was extracted with a signature-bearing qualified name is
\* stored under its simple name and now carries it
C13_Witness ==
    /\ pc = "built"
    /\ \E k \in Keys :
          /\ ~IsClassRef(symbol_table[k])
          /\ ElementAt(modules, symbol_table[k]).qualified_name = k
          /\ FullName(ElementAt(modules, symbol_table[k]).name) # k

----------------------------------------------------------------------------
(* Properties of a run of the indexer, checked under Spec *)

\* the top-level functions and the methods of the top-level classes
CallableRefs == {r \in IndexedRefs : ~IsClassRef(r)}

\* the visits of the resolve phase to a function
Visits(ref) == {i \in 1..Len(log) : log[i].function = ref}

\* the resolutions printed for a function's calls are those its call list
\* holds, one per Call reference
PrintedOncePerCall(ref) ==
    \A i \in Visits(ref) :
        /\ Len(log[i].calls) = Len(ElementAt(modules, ref).function_calls)
        /\ \A j \in 1..Len(log[i].calls) :
              log[i].calls[j] =
                  <<ElementAt(modules, ref).function_calls[j].name,
                    ElementAt(modules, ref).function_calls[j].resolved_name>>

\* C14: in one run every top-level function and every class method is
\* visited by the resolve phase exactly once, the resolved_name of each of
\* its Call references is assigned in that visit and never again, and no
\* function is left out.
C14_ResolvedOnce ==
    /\ [](\A r \in CallableRefs :
             /\ Cardinality(Visits(r)) <= 1
             /\ PrintedOncePerCall(r)
             /\ Visits(r) = {} => ElementAt(modules, r).function_calls = << >>)
    /\ [](Resolved => \A r \in CallableRefs : Cardinality(Visits(r)) = 1)
    /\ [](Len(log) = Cardinality(UNION {Visits(r) : r \in CallableRefs}))
    /\ [][\A r \in CallableRefs :
             Visits(r) # {} =>
                 ElementAt(modules', r).function_calls
                     = ElementAt(modules, r).function_calls]_vars

\* the run is over: a function with two calls, one resolved and one not,
\* and the method were each visited once
C14_Witness ==
    /\ pc = "done"
    /\ Len(log) = Cardinality(CallableRefs)
    /\ \E r \in CallableRefs :
          /\ r[2] = 0
          /\ Len(ElementAt(modules, r).function_calls) = 2
          /\ ElementAt(modules, r).function_calls[1].resolved_name # None
          /\ ElementAt(modules, r).function_calls[2].resolved_name = None
    /\ \E r \in CallableRefs : r[2] > 0 /\ Cardinality(Visits(r)) = 1

\* a function as extraction produced it, up to its call list and, unless
\* keep_names, its qualified name
AsExtracted(e, keep_names) ==
    [e EXCEPT !.function_calls = << >>,
              !.qualified_name = IF keep_names THEN e.qualified_name ELSE None]

ClassAsExtracted(c, keep_names) ==
    [c EXCEPT !.qualified_name = IF keep_names THEN c.qualified_name ELSE None,
              !.methods = [i \in DOMAIN c.methods |->
                              AsExtracted(c.methods[i], keep_names)]]

ModulesAsExtracted(mods, keep_names) ==
    [mi \in DOMAIN mods |->
        [mods[mi] EXCEPT
            !.functions = [i \in DOMAIN mods[mi].functions |->
                              AsExtracted(mods[mi].functions[i], keep_names)],
            !.classes = [i \in DOMAIN mods[mi].classes |->
                            ClassAsExtracted(mods[mi].classes[i], keep_names)]]]

WithoutResolvedNames(calls) ==
    [i \in DOMAIN calls |-> [calls[i] EXCEPT !.resolved_name = None]]

IndexerRuns == pc \in {"init", "built"}

\* C15 as stated: a run of the indexer changes no attribute of a module,
\* class or function, the full qualified names included (the call lists,
\* which the resolve phase fills in, are not compared).
C15_Frame_Original ==
    [][IndexerRuns =>
          ModulesAsExtracted(modules', TRUE)
              = ModulesAsExtracted(modules, TRUE)]_vars

\* C15 amended: a run of the indexer changes no attribute of a module, class
\* or function except that the build phase replaces the qualified_name of
\* every top-level class, of its methods and of every top-level function by
\* the element's simple name, and that the resolve phase stores each
\* visited function's call list; the Call references of that list are as
\* the Call-Site Extractor returns them but for resolved_name.
C15_Frame ==
    [][IndexerRuns =>
          /\ ModulesAsExtracted(modules', FALSE)
                 = ModulesAsExtracted(modules, FALSE)
          /\ pc = "init" =>
                \A r \in IndexedRefs :
                    /\ ElementAt(modules', r).qualified_name
                           = ElementAt(modules, r).name
                    /\ ~IsClassRef(r) =>
                           ElementAt(modules', r).function_calls
                               = ElementAt(modules, r).function_calls
          /\ pc = "built" =>
                /\ ModulesAsExtracted(modules', TRUE)
                       = ModulesAsExtracted(modules, TRUE)
                /\ \A r \in CallableRefs :
                      \/ ElementAt(modules', r).function_calls
                             = ElementAt(modules, r).function_calls
                      \/ WithoutResolvedNames(
                             ElementAt(modules', r).function_calls)
                             = _extract_function_calls(ElementAt(modules, r),
                                                       modules[r[1]])]_vars

\* after the run a function that was extracted with its signature-bearing
\* name carries its simple name, and one of its calls is resolved
C15_Witness ==
    /\ pc = "resolved"
    /\ \E r \in CallableRefs :
          /\ ElementAt(modules, r).qualified_name = NameOf(r)
          /\ \E i \in DOMAIN ElementAt(modules, r).function_calls :
                /\ ElementAt(modules, r).function_calls[i].resolved_name
                       \in Keys
                /\ ElementAt(modules, r).function_calls[i].resolved_name
                       # ElementAt(modules, r).function_calls[i].name

----------------------------------------------------------------------------
(* Properties of _parse_imports, checked under SpecImports *)

RelativeImport ==
    /\ pc = "imported"
    /\ probe.node.type = "ImportFrom"
    /\ probe.node.level > 0

\* 'from <dots>[M] import N': one name, no 'as'
SingleName ==
    Len(probe.node.names) = 1 /\ probe.node.names[1].asname = None

ImportedAs(target) ==
    probe.result = [k \in {probe.node.names[1].name[1]} |-> target]

C18_LevelRule ==
    (/\ RelativeImport
     /\ SingleName
     /\ probe.parent_module # None
     /\ probe.node.level <= Len(probe.parent_module)) =>
        LET P == probe.parent_module
            L == probe.node.level
            base == IF L = 1 THEN P ELSE SubSeq(P, 1, Len(P) - (L - 1))
        IN  ImportedAs(base \o probe.node.module \o probe.node.names[1].name)

----------------------------------------------------------------------------
(* Properties of parse_file and parse_directory, checked under SpecParse *)

Parsing == pc \in {"walk", "parsed"}

\* the files the loop of parse_directory has dealt with
Walked == 1..(cursor - 1)

HasModule(k) == \E i \in DOMAIN modules : modules[i].path = files[k].path

ModuleOf(k) ==
    modules[CHOOSE i \in DOMAIN modules : modules[i].path = files[k].path]

WellFormed(k) == can_parse(files[k].path) /\ SourceParses(files[k].body)

\* the path relative to the repository root, separators replaced by dots,
\* extension stripped
RelativeName(path) ==
    SubSeq(path.parts, Len(Root) + 1, Len(path.parts)) \o <<path.stem>>

\* C16: the module parse_file returns for a source file under the
\* repository root is named by the file's path relative to the root, with
\* dots for separators and without the extension, at any depth.
C16_ModuleIdentity ==
    Parsing =>
        \A k \in Walked :
            WellFormed(k) =>
                /\ HasModule(k)
                /\ ModuleOf(k).name = RelativeName(files[k].path)

NodeKey(n) ==
    IF n.names[1].asname # None THEN n.names[1].asname[1]
    ELSE n.names[1].name[1]

\* C19: a relative import whose level exceeds the segments of the enclosing
\* module's dotted path produces no alias entry, the other imports of the
\* file are mapped, and the file is parsed without error.
C19_OverLevelImport ==
    Parsing =>
        \A k \in Walked :
            WellFormed(k) =>
                /\ HasModule(k)
                /\ ModuleOf(k).error = None
                /\ \A i \in DOMAIN files[k].nodes :
                      LET n == files[k].nodes[i]
                      IN  /\ (n.type = "ImportFrom"
                                /\ n.level > Len(ModuleOf(k).name)) =>
                                 NodeKey(n) \notin
                                     DOMAIN ModuleOf(k).imports_mapping
                          /\ n.type = "Import" =>
                                 NodeKey(n) \in
                                     DOMAIN ModuleOf(k).imports_mapping

\* C20: for a file whose text is malformed parse_file returns a module
\* with no classes, no functions and a non-empty error string; it does not
\* raise, and the other files of the directory are parsed as usual.
C20_FileParseError ==
    Parsing =>
        /\ \A k \in Walked : can_parse(files[k].path) => HasModule(k)
        /\ Len(modules)
              = Cardinality({k \in Walked : can_parse(files[k].path)})
        /\ \A k \in Walked :
              (can_parse(files[k].path) /\ ~SourceParses(files[k].body)) =>
                  /\ ModuleOf(k).classes = << >>
                  /\ ModuleOf(k).functions = << >>
                  /\ ModuleOf(k).error # None
                  /\ ModuleOf(k).error[1] # ""
        /\ \A k \in Walked :
              WellFormed(k) =>
                  /\ ModuleOf(k).error = None
                  /\ Len(ModuleOf(k).classes)
                        = Len(SelectSeq(files[k].nodes,
                                        LAMBDA n : n.type = "ClassDef"))
                  /\ Len(ModuleOf(k).functions)
                        = Len(SelectSeq(files[k].nodes,
                                        LAMBDA n : n.type = "FunctionDef"))

\* a malformed file was parsed first, then a file with a class and a
\* function
C20_Witness ==
    /\ pc = "parsed"
    /\ Len(files) = 2
    /\ ~SourceParses(files[1].body)
    /\ Len(modules) = 2
    /\ modules[1].error # None
    /\ modules[1].classes = << >>
    /\ modules[2].classes # << >>
    /\ modules[2].functions # << >>

----------------------------------------------------------------------------
(* Properties of call extraction, checked under SpecExtract *)

Indexed == pc = "resolved"

\* the functions and methods whose source slice does not parse on its own
FailingRefs ==
    {ref \in FunctionRefs :
        ~SliceParses(SourceSlice(ElementAt(modules, ref), modules[ref[1]]))}

Remove(q, i) == SubSeq(q, 1, i - 1) \o SubSeq(q, i + 1, Len(q))

\* the module list without the function or method f
Without(mods, f) ==
    IF f[2] = 0
    THEN [mods EXCEPT ![f[1]].functions = Remove(@, f[3])]
    ELSE [mods EXCEPT ![f[1]].classes[f[2]].methods = Remove(@, f[3])]

\* the reference of g in the module list without f
Shifted(g, f) ==
    IF g[1] = f[1] /\ g[2] = f[2] /\ g[3] > f[3]
    THEN <<g[1], g[2], g[3] - 1>> ELSE g

\* the call list g gets in a run without f, against the symbol table given
CallsWithout(g, f, table) ==
    ResolvedCalls(ElementAt(Without(modules, f), Shifted(g, f)),
                  Without(modules, f)[g[1]], table)

\* the resolve phase visits every function and ends
Completes ==
    /\ pc = "built" => cursor \in 1..Len(ResolveOrder(modules))
    /\ Indexed => Len(log) = Len(ResolveOrder(modules))

\* C21 as stated: a function whose slice does not parse gets an empty call
\* list, the indexing run completes, and every other function has the
\* call list and resolutions of a run from which the failing function is
\* absent.
C21_ErrorIsolation_Original ==
    /\ Completes
    /\ Indexed =>
          \A f \in FailingRefs :
              /\ ElementAt(modules, f).function_calls = << >>
              /\ \A g \in FunctionRefs \ {f} :
                    ElementAt(modules, g).function_calls =
                        CallsWithout(g, f, BuildSymbolTable(Without(modules, f)))

\* C21 amended: a function whose slice does not parse gets an empty call
\* list, the indexing run completes, and every other function has the
\* call list and resolutions of a run whose resolve phase skips the failing
\* function; the failing function stays a declaration of the symbol table,
\* so that a call naming it still resolves to it.
C21_ErrorIsolation ==
    /\ Completes
    /\ Indexed =>
          \A f \in FailingRefs :
              /\ ElementAt(modules, f).function_calls = << >>
              /\ \A g \in FunctionRefs \ {f} :
                    ElementAt(modules, g).function_calls =
                        CallsWithout(g, f, symbol_table)

\* a malformed function with a call in its text, declared once, and
\* another function whose call resolves to it
C21_Witness ==
    /\ Indexed
    /\ \E f \in FailingRefs, g \in FunctionRefs :
          /\ f # g
          /\ f[2] = 0
          /\ \E i \in 1..Len(SourceSlice(ElementAt(modules, f), modules[f[1]])) :
                SourceSlice(ElementAt(modules, f), modules[f[1]])[i].calls # << >>
          /\ ElementAt(modules, f).function_calls = << >>
          /\ ElementAt(modules, f).name \notin
                 DOMAIN BuildSymbolTable(Without(modules, f))
          /\ \E i \in 1..Len(ElementAt(modules, g).function_calls) :
                ElementAt(modules, g).function_calls[i].resolved_name
                    = ElementAt(modules, f).name

SliceOf(ref) == SourceSlice(ElementAt(modules, ref), modules[ref[1]])

CallNamesOf(ref) ==
    [i \in 1..Len(ElementAt(modules, ref).function_calls) |->
        ElementAt(modules, ref).function_calls[i].name]

\* the dotted names of the calls of a slice whose callee is a name or an
\* attribute chain rooted at a name, in visiting order
RootedNames(slice) ==
    LET rooted(i) == SelectSeq(slice[i].calls, LAMBDA c : c.rooted)
        F[i \in 0..Len(slice)] ==
            IF i = 0 THEN << >>
            ELSE F[i - 1] \o [k \in 1..Len(rooted(i)) |-> rooted(i)[k].chain]
    IN  F[Len(slice)]

\* C22: the call list of a function whose slice parses has one Call
\* reference per call whose callee is a simple name or an attribute chain
\* rooted at a simple name, named by the dotted join of the chain, and none
\* for a call whose callee is rooted at another expression.
C22_CalleeFlattening ==
    Indexed =>
        \A ref \in FunctionRefs \ FailingRefs :
            CallNamesOf(ref) = RootedNames(SliceOf(ref))

----------------------------------------------------------------------------
(* Properties of the parser engine, checked under SpecEngine *)

ValidRepository == probe.repository_path = "directory"

\* C23: with a repository path that does not exist or is not a directory
\* the construction of the engine fails before any step of the run, and no
\* other failure aborts the run.
C23_RepositoryNotFound ==
    /\ ~ValidRepository => pc \in {"new", "raised"} /\ log = << >>
    /\ (~ValidRepository /\ pc = "raised") => probe.error # None
    /\ pc = "raised" => ~ValidRepository

WellFormedSlice(slice) == \A i \in 1..Len(slice) : slice[i].valid

\* C24: the call list of every function and of every method whose text is
\* well-formed holds a Call reference for each call of its body whose
\* callee is a name or an attribute chain rooted at a name.
C24_CompleteDiscovery ==
    Indexed =>
        \A ref \in FunctionRefs :
            WellFormedSlice(SliceOf(ref)) =>
                \A i \in 1..Len(SliceOf(ref)) :
                    \A k \in 1..Len(SliceOf(ref)[i].calls) :
                        SliceOf(ref)[i].calls[k].rooted =>
                            \E c \in 1..Len(ElementAt(modules, ref).function_calls) :
                                /\ CallNamesOf(ref)[c] = SliceOf(ref)[i].calls[k].chain
                                /\ ElementAt(modules, ref).function_calls[c].line_number = i

----------------------------------------------------------------------------
(* Properties of _resolve_call on the alias tables that _parse_imports     *)
(* builds, checked under SpecResolve *)

\* the statements 'from x import y' and 'from x import y as z'
FromImports ==
    {ImportFrom(<<x>>, 0, <<Alias(<<y>>, a)>>) :
        x \in Atoms, y \in Atoms, a \in {None} \cup {<<z>> : z \in Atoms}}

\* the owning module's alias table is the one a 'from X import Y [as Z]'
\* statement yields, and it binds the name
FromImported(name) ==
    /\ IsAlias(name)
    /\ \E node \in FromImports :
          ImportsMapping = _parse_imports(node, None, {})

\* C25: a bare call of a name bound by 'from X import Y [as Z]' resolves to
\* 'X.Y' when 'X.Y' is a symbol-table key, the name is not a built-in and
\* the owning module declares no symbol of that name.
C25_FromImportCall ==
    (/\ Probed
     /\ ~Dotted(probe.name)
     /\ FromImported(probe.name[1])
     /\ ImportsMapping[probe.name[1]] \in Keys
     /\ probe.name[1] \notin Builtins
     /\ LocalName(probe.name) \notin Keys) =>
        probe.result = ImportsMapping[probe.name[1]]

\* the statements 'import P' without 'as', P with one or two segments
PlainImports == {Import(<<Alias(P, None)>>) : P \in NamesUpTo(2)}

\* C26: with 'import P' (no 'as') in the owning module, a call literal
\* 'P.f' resolves to itself, for a dotted P as well.
C26_PlainImportCall ==
    (Probed /\ Dotted(probe.name)) =>
        \A node \in PlainImports :
            (/\ ImportsMapping = _parse_imports(node, None, {})
             /\ probe.name = node.names[1].name
                                 \o <<probe.name[Len(probe.name)]>>) =>
                probe.result = probe.name

----------------------------------------------------------------------------
(* Line numbers of the extracted calls, checked under SpecExtract *)

\* the line of the module text that line ln of the slice of ref is
ModuleLine(ref, ln) == ElementAt(modules, ref).start_line + ln - 1

\* C27: the line_number of every extracted Call reference is the 1-based
\* line of the call within the function's slice: it lies between 1 and
\* end_line - start_line + 1, and the module text has the call on line
\* start_line + line_number - 1.
C27_LineNumbers ==
    \A ref \in FunctionRefs :
        \A c \in 1..Len(ElementAt(modules, ref).function_calls) :
            LET call == ElementAt(modules, ref).function_calls[c]
                e == ElementAt(modules, ref)
                text == modules[ref[1]].body
            IN  /\ 1 <= call.line_number
                /\ call.line_number <= e.end_line - e.start_line + 1
                /\ ModuleLine(ref, call.line_number) \in 1..Len(text)
                /\ \E k \in 1..Len(text[ModuleLine(ref, call.line_number)].calls) :
                      _get_function_name(
                          text[ModuleLine(ref, call.line_number)].calls[k])
                          = call.name

\* a function that starts below the first line of its module has a call
\* on the third line of its slice
C27_Witness ==
    /\ Indexed
    /\ \E ref \in FunctionRefs :
          /\ ElementAt(modules, ref).start_line > 1
          /\ \E c \in 1..Len(ElementAt(modules, ref).function_calls) :
                /\ ElementAt(modules, ref).function_calls[c].line_number = 3
                /\ ModuleLine(ref, 3) > 3

----------------------------------------------------------------------------
(* Termination and depth of the unroller, checked under FairSpec and Spec *)

\* C28: whatever the resolved call lists (self-calls and cycles of any
\* length included) and whether or not the entry name is a symbol-table
\* key, a rendering that has started eventually returns.
C28_Termination == (pc = "graphed") ~> (pc = "done")

\* a finished rendering that met a cycle through three symbols and, below
\* it, a self-call
C28_Witness ==
    /\ pc = "done"
    /\ \E i \in 1..Len(out) :
          out[i].kind = "(cycle)" /\ Len(out[i].path) = 4
    /\ \E i \in 1..Len(out) :
          out[i].kind = "(cycle)" /\ Len(out[i].path) = 2

\* C29: during a rendering no symbol is on the visit stack twice, every
\* symbol on it is a symbol-table key, and the depth of the recursion is at
\* most the length of the visit stack plus one, hence at most the number of
\* symbol-table keys plus one.
C29_StackBound ==
    pc = "unroll" =>
        /\ \A i, j \in 1..Len(visit_stack) :
              visit_stack[i] = visit_stack[j] => i = j
        /\ \A i \in 1..Len(visit_stack) : visit_stack[i] \in Keys
        /\ Len(frames) <= Len(visit_stack) + 1
        /\ Len(frames) <= Cardinality(Keys) + 1

\* three symbols are on the visit stack and a fourth invocation, of a
\* symbol called a second time along other branches, is being entered
C29_Witness ==
    /\ Unrolling
    /\ Len(visit_stack) = 3
    /\ Len(frames) = 4
    /\ Top.pc = "enter"
    /\ Count("def", visit_stack[3]) >= 2

----------------------------------------------------------------------------
(* Order of the module list, checked under SpecExtract *)

\* the module list in the order p, and the place of module mi in it
Permuted(p) == [i \in DOMAIN modules |-> modules[p[i]]]

PlaceOf(mi, p) == CHOOSE j \in DOMAIN modules : p[j] = mi

\* C30: every function has the call list, resolved names included, that an
\* indexing run on any permutation of the module list gives it, even when
\* two modules declare the same name.
C30_OrderIndependence ==
    Indexed =>
        \A p \in Permutations(DOMAIN modules) :
            \A ref \in FunctionRefs :
                ElementAt(modules, ref).function_calls =
                    ResolvedCalls(
                        ElementAt(Permuted(p), <<PlaceOf(ref[1], p), ref[2], ref[3]>>),
                        Permuted(p)[PlaceOf(ref[1], p)],
                        BuildSymbolTable(Permuted(p)))

\* a call is resolved to a name that both modules declare and whose entry
\* in the symbol table depends on the order, and another to a name that
\* only the first module declares
C30_Witness ==
    /\ Indexed
    /\ modules[1].functions[1].name = modules[2].functions[1].name
    /\ LET reversed == Permuted([i \in DOMAIN modules |-> Len(modules) + 1 - i])
       IN  ElementAt(modules, symbol_table[DeclName(1)])
               # ElementAt(reversed, BuildSymbolTable(reversed)[DeclName(1)])
    /\ \E ref \in FunctionRefs :
          \E c \in 1..Len(ElementAt(modules, ref).function_calls) :
              ElementAt(modules, ref).function_calls[c].resolved_name = DeclName(1)
    /\ \E ref \in FunctionRefs :
          \E c \in 1..Len(ElementAt(modules, ref).function_calls) :
              ElementAt(modules, ref).function_calls[c].resolved_name = DeclName(2)

====
